---- MODULE Spec2Model ----
(***************************************************************************)
(* State-machine model of the falling-object game: the App scene switch,  *)
(* the GameWorld engine record and its requestAnimationFrame loop, the    *)
(* 10 Hz HUD snapshot, and the input handlers.                             *)
(*                                                                         *)
(* Number representation (the source computes in IEEE doubles; the model  *)
(* computes the same expressions exactly, over the rationals):            *)
(*   - times are integer milliseconds;                                    *)
(*   - engine.handX and the filter state are reduced fractions n/d;       *)
(*   - engine.difficulty is a numerator over DiffDen;                     *)
(*   - an object's y is a mixed number  i + f/YDen  with 0 <= f < YDen.   *)
(***************************************************************************)
EXTENDS Integers, Sequences, FiniteSets, TLC

VARIABLES
    now,          \* host clock, ms since the time origin (rAF timestamp; Date.now() up to an offset)
    scene,        \* App: currentScene
    lastScore,    \* App: lastScore
    leaderboard,  \* App: leaderboard (kept in localStorage)
    props,        \* GameWorld props chosen in the menu: inputMode, theme, gameDifficulty
    host,         \* the environment explored: frame gaps, random draws, frame budget
    isPaused,     \* GameWorld: isPaused state
    engine,       \* GameWorld: engine.current
    uiState,      \* GameWorld: uiState (HUD snapshot)
    rafPending,   \* pending game-loop frame callbacks, each with the isPaused its closure captured
    uiInterval,   \* TRUE while the 100 ms interval of the loop effect is installed
    kalmanX,      \* VisionTracker: kalmanX.current
    camera,       \* VisionTracker: "starting", "playing" (video.readyState = 4) or "failed"
    frameCount,   \* number of frame callbacks delivered so far (bounded by MaxFrames)
    ev,           \* observation: what the last delivered frame callback did
    vis,          \* observation: what the last tracker frame did
    hist          \* observation: per-session accumulators (paused time, hits, terminal events)

vars == <<now, scene, lastScore, leaderboard, props, host, isPaused, engine, uiState,
          rafPending, uiInterval, kalmanX, camera, frameCount, ev, vis, hist>>

(***************************************************************************)
(* Bounds of the exploration                                               *)
(***************************************************************************)
MaxFrames == 3        \* frame callbacks delivered under the wide host
MaxFramesLong == 6    \* frame callbacks delivered under the narrow host
MaxFramesVision == 2  \* frame callbacks delivered under the tracker's host
MaxFramesPointer == 1 \* frame callbacks delivered in the pointer specification
MaxFramesReach == 2   \* frame callbacks delivered in the spawn-position specification
MaxFramesBoard == 3   \* frame callbacks delivered in the leaderboard specification
MaxSessions == 2
MaxDetections == 4    \* filter updates explored by the tracker specification
MaxNow == 5540000

\* frame-to-frame gaps the host may deliver (ms): a fast frame, a slow frame
\* and one long gap (a hidden tab, or a pause left open)
DtSet == {16, 1504, 5520000}
DtSetLong == {1504, 5520000}

\* ms since the time origin at which the first session is mounted
MountTimes == {2000}

(***************************************************************************)
(* Configuration tables                                                    *)
(***************************************************************************)
DiffDen == 120000
YDen == 20004000   \* 1667 * 12000: denominator of every y increment

\* gravityMult in tenths
THEME_DATA ==
    [COSMIC     |-> [gravityMult |-> 9],
     NEON_CITY  |-> [gravityMult |-> 11],
     NATURE     |-> [gravityMult |-> 7],
     URBAN_RAIN |-> [gravityMult |-> 13],
     MIND_LAB   |-> [gravityMult |-> 10],
     RETRO      |-> [gravityMult |-> 12]]

\* growth is in hundredths
DIFFICULTY_SETTINGS ==
    [EASY   |-> [initialLives |-> 5, growth |-> 3,  hazardPenalty |-> 1, spawnRateBase |-> 1200],
     MEDIUM |-> [initialLives |-> 3, growth |-> 10, hazardPenalty |-> 1, spawnRateBase |-> 1000],
     HARD   |-> [initialLives |-> 1, growth |-> 25, hazardPenalty |-> 1, spawnRateBase |-> 700]]

\* values the random draws of a spawn may take: x in [50,750), speed in [4,7)
\* pointer positions (clientX) and the container rectangle of handleMove
ContainerLeft == 368
ContainerWidth == 800
ClientXs == {300, 768}

SpawnXs == {400}
SpawnSpeeds == {5, 6}
RandomDraws == [isBad : BOOLEAN, x : SpawnXs, speed : SpawnSpeeds]
RandomDrawsLong == [isBad : BOOLEAN, x : SpawnXs, speed : {6}]

\* the sessions explored: the menu choices, and the host each one runs under
\* (frame gaps, random draws, frames delivered, pointer positions, and whether
\* the player uses the pause button)
Worlds ==
    {[props |-> [inputMode |-> "CURSOR", theme |-> "RETRO", gameDifficulty |-> "HARD"],
      host  |-> [dts |-> DtSet, draws |-> RandomDraws, frames |-> MaxFrames,
                 pointer |-> ClientXs, pause |-> TRUE]],
     [props |-> [inputMode |-> "VISION", theme |-> "MIND_LAB", gameDifficulty |-> "MEDIUM"],
      host  |-> [dts |-> DtSet, draws |-> RandomDraws, frames |-> MaxFramesVision,
                 pointer |-> {}, pause |-> TRUE]],
     [props |-> [inputMode |-> "CURSOR", theme |-> "MIND_LAB", gameDifficulty |-> "EASY"],
      host  |-> [dts |-> DtSetLong, draws |-> RandomDrawsLong, frames |-> MaxFramesLong,
                 pointer |-> {}, pause |-> FALSE]]}

Min(a, b) == IF a < b THEN a ELSE b
Max(a, b) == IF a > b THEN a ELSE b
Abs(n) == IF n < 0 THEN 0 - n ELSE n

(***************************************************************************)
(* Exact fractions n/d, d > 0, kept reduced                                *)
(***************************************************************************)
RECURSIVE GCD(_, _)
GCD(a, b) == IF b = 0 THEN a ELSE GCD(b, a % b)

Rat(n, d) == LET g == GCD(Abs(n), d) IN [n |-> n \div g, d |-> d \div g]
RInt(n) == [n |-> n, d |-> 1]
RNeg(x) == [n |-> 0 - x.n, d |-> x.d]
RAdd(x, y) ==
    LET g == GCD(x.d, y.d)
    IN  Rat(x.n * (y.d \div g) + y.n * (x.d \div g), (x.d \div g) * y.d)
RSub(x, y) == RAdd(x, RNeg(y))
RMul(x, y) ==
    LET g1 == GCD(Abs(x.n), y.d)
        g2 == GCD(Abs(y.n), x.d)
    IN  Rat((x.n \div g1) * (y.n \div g2), (x.d \div g2) * (y.d \div g1))
RDiv(x, y) == RMul(x, [n |-> y.d, d |-> y.n])      \* y > 0
RLess(x, y) == RSub(x, y).n < 0
RLeq(x, y) == RSub(x, y).n <= 0
RMin(x, y) == IF RLess(x, y) THEN x ELSE y
RMax(x, y) == IF RLess(x, y) THEN y ELSE x

\* estimates the vision tracker may hand to handleHandUpdate
VisionXs == {Rat(0, 1), Rat(1, 2)}

(***************************************************************************)
(* Mixed-number arithmetic for y                                           *)
(***************************************************************************)
YInt(n) == [i |-> n, f |-> 0]
YAdd(a, b) ==
    [i |-> a.i + b.i + ((a.f + b.f) \div YDen), f |-> (a.f + b.f) % YDen]
YLess(a, n) == a.i < n                               \* a < n, n an integer
YGreater(a, n) == a.i > n \/ (a.i = n /\ a.f > 0)    \* a > n, n an integer

\* speed * (min(dt,32)/16.67) * gravityMult * difficulty, exactly:
\*   speed * m * g10 * dn / (1667 * 12000)  with m = min(dt,32), g10 tenths,
\*   dn over DiffDen; dn is split in whole and fractional part of the
\*   multiplier so that no intermediate product leaves 32 bits.
YStep(speed, m, g10, dn) ==
    LET B  == speed * m * g10
        q  == dn \div DiffDen
        r  == dn % DiffDen
        w1 == (B * q * 10) \div 1667
        r1 == (B * q * 10) % 1667
        t  == r1 * 12000 + B * r
    IN  [i |-> w1 + (t \div YDen), f |-> t % YDen]

(***************************************************************************)
(* Pure parts of the loop                                                  *)
(***************************************************************************)
DifficultyEasing(score, elapsedMs) == DiffDen + 240 * score - elapsedMs

\* 1 + score/500 + elapsedMs/120000, as a numerator over DiffDen
DifficultyRatchet(score, elapsedMs) == engine.difficulty + 240 * score + elapsedMs
Difficulty(score, elapsedMs) == DiffDen + 240 * score + elapsedMs

\* the difficulty a session mounted on `tier` computes: settings is bound from
\* the tier, but the difficulty expression reads none of its fields
DifficultyOnTier(tier, score, elapsedMs) == Difficulty(score, elapsedMs)

SpawnRateNoFloor(tier, score) ==
    DIFFICULTY_SETTINGS[tier].spawnRateBase - (score * 3)

SpawnRateByDifficulty(tier, score) ==
    Max(200, (SpawnRateNoFloor(tier, score) * DiffDen) \div engine.difficulty)

\* Math.max(200, settings.spawnRateBase - (e.score * 3))
SpawnRate(tier, score) ==
    Max(200, DIFFICULTY_SETTINGS[tier].spawnRateBase - (score * 3))

\* Math.min(dt, 32): the numerator of step (step = StepMs / 16.67)
StepMsUnclamped(dt) == dt
StepMs(dt) == Min(dt, 32)

\* px = e.handX * 800 - pw/2 ; py = 600 - 110
PaddleW == 140
PaddleH == 24
PaddleX(handX) == RSub(RMul(handX, RInt(800)), RInt(PaddleW \div 2))
PaddleY == 600 - 110

\* px < v and v < px + pw for a whole number v, each side multiplied by
\* the (positive) denominator of handX
PaddleLeftOf(handX, v) ==
    handX.n * 800 - (PaddleW \div 2) * handX.d < v * handX.d
PaddleRightOfPercent(handX, v) ==
    v * handX.d < handX.n * 100 - (PaddleW \div 2) * handX.d + PaddleW * handX.d
PaddleRightOf(handX, v) ==
    v * handX.d < handX.n * 800 - (PaddleW \div 2) * handX.d + PaddleW * handX.d

HitBelowPaddle(obj, handX) ==
    /\ PaddleLeftOf(handX, obj.x)
    /\ PaddleRightOf(handX, obj.x)
    /\ YGreater(obj.y, PaddleY)

HitLowerInclusive(obj, handX) ==
    /\ (PaddleLeftOf(handX, obj.x) \/ PaddleX(handX) = RInt(obj.x))
    /\ PaddleRightOf(handX, obj.x)
    /\ ~YLess(obj.y, PaddleY)
    /\ YLess(obj.y, PaddleY + PaddleH)

\* obj.x > px && obj.x < px + pw && obj.y > py && obj.y < py + ph
Hit(obj, handX) ==
    /\ PaddleLeftOf(handX, obj.x)
    /\ PaddleRightOf(handX, obj.x)
    /\ YGreater(obj.y, PaddleY)
    /\ YLess(obj.y, PaddleY + PaddleH)

StaysInPlayVisible(obj) == YLess(obj.y, 600)

\* the filter predicate of the motion pass: obj.y < 650
StaysInPlay(obj) == YLess(obj.y, 650)

\* {...obj, y: obj.y + obj.speed * step * gravityMult * e.difficulty}
MoveObj(obj, dt, theme, difficulty) ==
    [obj EXCEPT !.y = YAdd(obj.y,
        YStep(obj.speed, StepMs(dt), THEME_DATA[theme].gravityMult, difficulty))]

MapMove(objs, dt, theme, difficulty) ==
    [k \in 1..Len(objs) |-> MoveObj(objs[k], dt, theme, difficulty)]

\* e.score += 5 + Math.floor(e.combo / 4); e.combo++
GoodHitBonusAfterIncrement(acc, obj, theme) ==
    [acc EXCEPT !.score = acc.score + 5 + ((acc.combo + 1) \div 4),
                !.combo = acc.combo + 1,
                !.audio = Append(acc.audio, <<"playCollect", theme>>),
                !.hits = Append(acc.hits, obj.id),
                !.goods = acc.goods + 1,
                !.goodBetween = acc.goodBetween \/ (acc.bads > 0 /\ acc.lives > 0)]

GoodHitSilent(acc, obj, theme) ==
    [acc EXCEPT !.score = acc.score + 5 + (acc.combo \div 4),
                !.combo = acc.combo + 1,
                !.hits = Append(acc.hits, obj.id),
                !.goods = acc.goods + 1,
                !.goodBetween = acc.goodBetween \/ (acc.bads > 0 /\ acc.lives > 0)]

GoodHit(acc, obj, theme) ==
    [acc EXCEPT !.score = acc.score + 5 + (acc.combo \div 4),
                !.combo = acc.combo + 1,
                !.audio = Append(acc.audio, <<"playCollect", theme>>),
                !.hits = Append(acc.hits, obj.id),
                !.goods = acc.goods + 1,
                !.goodBetween = acc.goodBetween \/ (acc.bads > 0 /\ acc.lives > 0)]

BadHitCostsScore(acc, obj, theme, tier) ==
    LET l == acc.lives - DIFFICULTY_SETTINGS[tier].hazardPenalty IN
    [acc EXCEPT !.lives = l,
                !.score = acc.score - 5,
                !.combo = 0,
                !.audio = Append(acc.audio, <<"playHazard", theme>>),
                !.hits = Append(acc.hits, obj.id),
                !.bads = acc.bads + 1,
                !.fatalScore = IF acc.lives > 0 /\ l <= 0 THEN acc.score
                               ELSE acc.fatalScore]

BadHitShieldedByCombo(acc, obj, theme, tier) ==
    LET l == IF acc.combo > 0 THEN acc.lives
             ELSE acc.lives - DIFFICULTY_SETTINGS[tier].hazardPenalty IN
    [acc EXCEPT !.lives = l,
                !.combo = 0,
                !.audio = Append(acc.audio, <<"playHazard", theme>>),
                !.hits = Append(acc.hits, obj.id),
                !.bads = acc.bads + 1,
                !.fatalScore = IF acc.lives > 0 /\ l <= 0 THEN acc.score
                               ELSE acc.fatalScore]

\* e.lives -= settings.hazardPenalty; e.combo = 0
BadHit(acc, obj, theme, tier) ==
    LET l == acc.lives - DIFFICULTY_SETTINGS[tier].hazardPenalty IN
    [acc EXCEPT !.lives = l,
                !.combo = 0,
                !.audio = Append(acc.audio, <<"playHazard", theme>>),
                !.hits = Append(acc.hits, obj.id),
                !.bads = acc.bads + 1,
                !.fatalScore = IF acc.lives > 0 /\ l <= 0 THEN acc.score
                               ELSE acc.fatalScore]

\* the collision pass: e.objects.filter(obj => { ... }) in collection order
RECURSIVE Collide(_, _, _, _, _)
Collide(objs, k, acc, handX, cfg) ==
    IF k > Len(objs) THEN acc
    ELSE LET obj == objs[k] IN
         IF Hit(obj, handX)
         THEN Collide(objs, k + 1,
                      IF obj.type = "GOOD" THEN GoodHit(acc, obj, cfg.theme)
                      ELSE BadHit(acc, obj, cfg.theme, cfg.gameDifficulty),
                      handX, cfg)
         ELSE Collide(objs, k + 1, [acc EXCEPT !.kept = Append(acc.kept, obj)],
                      handX, cfg)

FloorToTen(score) == score - (score % 10)

\* the values the collision pass starts from
StartOfPass(e, h) ==
    [score |-> e.score, lives |-> e.lives, combo |-> e.combo,
     kept |-> <<>>, audio |-> <<>>, hits |-> <<>>,
     goods |-> h.goods, bads |-> h.bads, goodBetween |-> h.goodBetween,
     fatalScore |-> h.fatalScore]

\* Math.floor(e.score): the score is a whole number in every reachable state
Floor(score) == score

(***************************************************************************)
(* Initial state and mounting                                              *)
(***************************************************************************)
NoEvent ==
    [kind |-> "none", gap |-> 0, dt |-> 0, first |-> FALSE, pausedBefore |-> 0,
     moved |-> <<>>, spawned |-> FALSE, hits |-> <<>>, audio |-> <<>>,
     scoreBefore |-> 0, spawnRate |-> 0, gameOver |-> FALSE,
     scheduled |-> FALSE]

NoVis ==
    [kind |-> "none", updates |-> 0, run |-> 0, z |-> Rat(0, 1), gain |-> Rat(0, 1),
     predicted |-> Rat(0, 1),
     before |-> [x |-> Rat(0, 1), p |-> Rat(0, 1)]]

NoHist ==
    [session |-> 0, pausedAcc |-> 0, elapsedAtPause |-> 0,
     terminalEvents |-> 0, bads |-> 0, goods |-> 0, goodBetween |-> FALSE,
     fatalScore |-> -1, lastClientX |-> -1]

NewEngineKeepingScore(tier, t) ==
    [score |-> lastScore,
     lives |-> DIFFICULTY_SETTINGS[tier].initialLives,
     combo |-> 0,
     objects |-> <<>>,
     handX |-> Rat(1, 2),
     isHandDetected |-> TRUE,
     difficulty |-> DiffDen,
     spawnTimer |-> 0,
     lastTime |-> 0,
     startTime |-> t]

\* useRef({...}) of GameWorld
NewEngine(tier, t) ==
    [score |-> 0,
     lives |-> DIFFICULTY_SETTINGS[tier].initialLives,
     combo |-> 0,
     objects |-> <<>>,
     handX |-> Rat(1, 2),
     isHandDetected |-> TRUE,
     difficulty |-> DiffDen,
     spawnTimer |-> 0,
     lastTime |-> 0,
     startTime |-> t]

\* useRef({ x: 0.5, p: 1.0, q: 0.08, r: 0.04 }) of VisionTracker
NewKalman == [x |-> Rat(1, 2), p |-> Rat(1, 1), q |-> Rat(8, 100), r |-> Rat(4, 100)]

\* useState({ score: 0, lives: 0, combo: 0, difficulty: 1, currentTime: 0 })
NewUiState ==
    [score |-> 0, lives |-> 0, combo |-> 0, difficulty |-> DiffDen, currentTime |-> 0]

Init ==
    /\ now \in MountTimes
    /\ scene = "START_MENU"
    /\ lastScore = 0
    /\ leaderboard = <<>>
    /\ \E w \in Worlds : props = w.props /\ host = w.host
    /\ isPaused = FALSE
    /\ engine = NewEngine(props.gameDifficulty, now)
    /\ uiState = NewUiState
    /\ rafPending = {}
    /\ uiInterval = FALSE
    /\ kalmanX = NewKalman
    /\ camera = "starting"
    /\ frameCount = 0
    /\ ev = NoEvent
    /\ vis = NoVis
    /\ hist = NoHist

\* StartMenu's onStart: setCurrentScene(GameScene.HOW_TO_PLAY)
handleShowHowToPlay ==
    /\ scene = "START_MENU"
    /\ scene' = "HOW_TO_PLAY"
    /\ UNCHANGED <<now, lastScore, leaderboard, props, host, isPaused, engine, uiState,
                   rafPending, uiInterval, kalmanX, camera, frameCount, ev, vis, hist>>

\* App.handleStartGame, from the briefing screen or the game-over screen:
\* GameWorld is mounted with a fresh engine and its loop effect runs
handleStartGame ==
    /\ scene \in {"HOW_TO_PLAY", "GAME_OVER"}
    /\ hist.session < MaxSessions
    /\ scene' = "GAMEPLAY"
    /\ isPaused' = FALSE
    /\ engine' = NewEngine(props.gameDifficulty, now)
    /\ uiState' = NewUiState
    /\ rafPending' = {[paused |-> FALSE]}
    /\ uiInterval' = TRUE
    /\ ev' = NoEvent
    /\ vis' = NoVis
    /\ hist' = [NoHist EXCEPT !.session = hist.session + 1]
    /\ kalmanX' = NewKalman
    /\ camera' = "starting"
    /\ UNCHANGED <<now, lastScore, leaderboard, props, host, frameCount>>

(***************************************************************************)
(* The game loop: one delivered requestAnimationFrame callback             *)
(***************************************************************************)
\* an id no entry of the board has (Math.random().toString(36).substr(2, 9))
NewEntryId(board) ==
    IF board = <<>> THEN 1
    ELSE 1 + (CHOOSE m \in {board[k].id : k \in 1..Len(board)} :
                 \A k \in 1..Len(board) : board[k].id =< m)

\* newEntry of handleGameOver: the fields the board is ordered and told apart by
NewEntry(board, score) == [id |-> NewEntryId(board), score |-> score]

\* Array.prototype.sort((a, b) => b.score - a.score): descending by score,
\* entries of equal score in their previous order
RECURSIVE InsertByScore(_, _)
InsertByScore(sorted, e) ==
    IF sorted = <<>> THEN <<e>>
    ELSE IF Head(sorted).score >= e.score
         THEN <<Head(sorted)>> \o InsertByScore(Tail(sorted), e)
         ELSE <<e>> \o sorted

RECURSIVE SortByScore(_)
SortByScore(entries) ==
    IF entries = <<>> THEN <<>>
    ELSE InsertByScore(SortByScore(SubSeq(entries, 1, Len(entries) - 1)),
                       entries[Len(entries)])

\* .slice(0, 10)
SliceTen(entries) == SubSeq(entries, 1, Min(10, Len(entries)))

UpdateLeaderboardUnsorted(prev, newEntry) == SliceTen(Append(prev, newEntry))

\* [...prev, newEntry].sort((a, b) => b.score - a.score).slice(0, 10)
UpdateLeaderboard(prev, newEntry) == SliceTen(SortByScore(Append(prev, newEntry)))

\* leaderboard.length > 0 ? Math.max(...leaderboard.map(e => e.score)) : 0
RECURSIVE MaxScore(_)
MaxScore(entries) ==
    IF Len(entries) = 1 THEN entries[1].score
    ELSE Max(entries[1].score, MaxScore(Tail(entries)))
highScore == IF Len(leaderboard) > 0 THEN MaxScore(leaderboard) ELSE 0

\* App.handleGameOver(score): records the score and switches the scene, which
\* unmounts GameWorld; the effect cleanup cancels the frame and the interval
handleGameOver(score) ==
    /\ lastScore' = score
    /\ leaderboard' = UpdateLeaderboard(leaderboard, NewEntry(leaderboard, Floor(score)))
    /\ scene' = "GAME_OVER"
    /\ rafPending' = {}
    /\ uiInterval' = FALSE

LoopPausedDrift(f, d) ==
    /\ engine' = [engine EXCEPT !.spawnTimer = engine.spawnTimer + d]
    /\ rafPending' = (rafPending \ {f}) \cup {f}
    /\ ev' = [NoEvent EXCEPT !.kind = "paused", !.gap = d, !.scheduled = TRUE]
    /\ hist' = [hist EXCEPT !.pausedAcc = hist.pausedAcc + d]
    /\ UNCHANGED <<scene, lastScore, leaderboard, uiInterval>>

\* if (isPaused) { frameId = requestAnimationFrame(loop); return; }
LoopPaused(f, d) ==
    /\ engine' = engine
    /\ rafPending' = (rafPending \ {f}) \cup {f}
    /\ ev' = [NoEvent EXCEPT !.kind = "paused", !.gap = d, !.scheduled = TRUE]
    /\ hist' = [hist EXCEPT !.pausedAcc = hist.pausedAcc + d]
    /\ UNCHANGED <<scene, lastScore, leaderboard, uiInterval>>

\* the object pushed by the spawn branch; the id is fresh (the frame time)
NewObject(t, rnd) ==
    [id |-> t, x |-> rnd.x, y |-> YInt(-50), speed |-> rnd.speed,
     type |-> IF rnd.isBad THEN "BAD" ELSE "GOOD"]

\* e.spawnTimer > spawnRate, with e.spawnTimer already advanced by dt
SpawnDueOnStep(timer, tier, score) == StepMs(timer) > SpawnRate(tier, score)
SpawnDue(timer, tier, score) == timer > SpawnRate(tier, score)

GameIsOverOnLastLife(lives) == lives <= 1

GameIsOverBelowZero(lives) == lives < 0

\* if (e.lives <= 0) { onGameOver(...); return; }
GameIsOver(lives) == lives <= 0

\* the body of loop(time) below the pause check, for the random draws rnd
LoopBodyDifficultyFirst(f, t, rnd) ==
    LET e      == engine
        dt     == t - e.lastTime
        moved  == MapMove(e.objects, dt, props.theme,
                          Difficulty(e.score, t - e.startTime))
        alive  == SelectSeq(moved, StaysInPlay)
        timer  == e.spawnTimer + dt
        due    == SpawnDue(timer, props.gameDifficulty, e.score)
        pushed == IF due THEN Append(alive, NewObject(t, rnd)) ELSE alive
        res    == Collide(pushed, 1, StartOfPass(e, hist), e.handX, props)
        over   == GameIsOver(res.lives)
    IN
    /\ engine' = [e EXCEPT !.lastTime = t,
                           !.objects = res.kept,
                           !.spawnTimer = IF due THEN 0 ELSE timer,
                           !.score = res.score,
                           !.lives = res.lives,
                           !.combo = res.combo,
                           !.difficulty = Difficulty(res.score, t - e.startTime)]
    /\ ev' = [kind |-> "run", gap |-> t - now, dt |-> dt, first |-> (e.lastTime = 0),
              pausedBefore |-> hist.pausedAcc,
              moved |-> moved, spawned |-> due, hits |-> res.hits,
              audio |-> res.audio, scoreBefore |-> e.score,
              spawnRate |-> SpawnRate(props.gameDifficulty, e.score),
              gameOver |-> over, scheduled |-> ~over]
    /\ hist' = [hist EXCEPT !.pausedAcc = 0,
                            !.goods = res.goods, !.bads = res.bads,
                            !.goodBetween = hist.goodBetween
                                \/ res.goodBetween,
                            !.fatalScore = res.fatalScore,
                            !.terminalEvents = hist.terminalEvents + (IF over THEN 1 ELSE 0)]
    /\ IF over
       THEN handleGameOver(Floor(res.score))
       ELSE /\ rafPending' = (rafPending \ {f}) \cup {f}
            /\ UNCHANGED <<scene, lastScore, leaderboard, uiInterval>>

LoopBody(f, t, rnd) ==
    LET e      == engine
        dt     == t - e.lastTime
        moved  == MapMove(e.objects, dt, props.theme, e.difficulty)
        alive  == SelectSeq(moved, StaysInPlay)
        timer  == e.spawnTimer + dt
        due    == SpawnDue(timer, props.gameDifficulty, e.score)
        pushed == IF due THEN Append(alive, NewObject(t, rnd)) ELSE alive
        res    == Collide(pushed, 1, StartOfPass(e, hist), e.handX, props)
        over   == GameIsOver(res.lives)
    IN
    /\ engine' = [e EXCEPT !.lastTime = t,
                           !.objects = res.kept,
                           !.spawnTimer = IF due THEN 0 ELSE timer,
                           !.score = res.score,
                           !.lives = res.lives,
                           !.combo = res.combo,
                           !.difficulty = Difficulty(res.score, t - e.startTime)]
    /\ ev' = [kind |-> "run", gap |-> t - now, dt |-> dt, first |-> (e.lastTime = 0),
              pausedBefore |-> hist.pausedAcc,
              moved |-> moved, spawned |-> due, hits |-> res.hits,
              audio |-> res.audio, scoreBefore |-> e.score,
              spawnRate |-> SpawnRate(props.gameDifficulty, e.score),
              gameOver |-> over, scheduled |-> ~over]
    /\ hist' = [hist EXCEPT !.pausedAcc = 0,
                            !.goods = res.goods, !.bads = res.bads,
                            !.goodBetween = hist.goodBetween
                                \/ res.goodBetween,
                            !.fatalScore = res.fatalScore,
                            !.terminalEvents = hist.terminalEvents + (IF over THEN 1 ELSE 0)]
    /\ IF over
       THEN handleGameOver(Floor(res.score))
       ELSE /\ rafPending' = (rafPending \ {f}) \cup {f}
            /\ UNCHANGED <<scene, lastScore, leaderboard, uiInterval>>

LoopRunning(f, t) ==
    IF SpawnDue(engine.spawnTimer + (t - engine.lastTime), props.gameDifficulty, engine.score)
    THEN \E rnd \in host.draws : LoopBody(f, t, rnd)
    ELSE LoopBody(f, t, CHOOSE rnd \in host.draws : TRUE)

\* a frame callback whose closure captured isPaused = true
FramePaused(d) ==
    /\ scene = "GAMEPLAY"
    /\ frameCount < host.frames
    /\ d \in host.dts
    /\ now + d <= MaxNow
    /\ \E f \in rafPending :
          /\ f.paused
          /\ LoopPaused(f, d)
    /\ now' = now + d
    /\ frameCount' = frameCount + 1
    /\ UNCHANGED <<props, host, isPaused, uiState, kalmanX, camera, vis>>

\* a frame callback whose closure captured isPaused = false
FrameRunning(d) ==
    /\ scene = "GAMEPLAY"
    /\ frameCount < host.frames
    /\ d \in host.dts
    /\ now + d <= MaxNow
    /\ \E f \in rafPending :
          /\ ~f.paused
          /\ LoopRunning(f, now + d)
    /\ now' = now + d
    /\ frameCount' = frameCount + 1
    /\ UNCHANGED <<props, host, isPaused, uiState, kalmanX, camera, vis>>

(***************************************************************************)
(* Other handlers of GameWorld                                             *)
(***************************************************************************)
TogglePauseNoCancel ==
    /\ scene = "GAMEPLAY"
    /\ host.pause
    /\ isPaused' = ~isPaused
    /\ rafPending' = rafPending \cup {[paused |-> ~isPaused]}
    /\ uiInterval' = TRUE
    /\ hist' = [hist EXCEPT !.elapsedAtPause =
                   IF ~isPaused THEN now - engine.startTime ELSE 0]
    /\ UNCHANGED <<now, scene, lastScore, leaderboard, props, host, engine, uiState, kalmanX,
                   camera, frameCount, ev, vis>>

\* onClick={() => setIsPaused(!isPaused)}: the loop effect is cleaned up
\* (cancelAnimationFrame(frameId), clearInterval) and run again
TogglePause ==
    /\ scene = "GAMEPLAY"
    /\ host.pause
    /\ isPaused' = ~isPaused
    /\ rafPending' = (rafPending \ {[paused |-> isPaused]}) \cup {[paused |-> ~isPaused]}
    /\ uiInterval' = TRUE
    /\ hist' = [hist EXCEPT !.elapsedAtPause =
                   IF ~isPaused THEN now - engine.startTime ELSE 0]
    /\ UNCHANGED <<now, scene, lastScore, leaderboard, props, host, engine, uiState, kalmanX,
                   camera, frameCount, ev, vis>>

PointerFractionUnclamped(clientX, left, width) == Rat(clientX - left, width)

\* Math.max(0, Math.min(1, (e.clientX - rect.left) / rect.width))
PointerFraction(clientX, left, width) ==
    RMax(RInt(0), RMin(RInt(1), Rat(clientX - left, width)))

\* the mousemove listener of cursor mode
handleMove(clientX) ==
    /\ scene = "GAMEPLAY"
    /\ props.inputMode = "CURSOR"
    /\ clientX \in host.pointer
    /\ IF isPaused                       \* if (isPaused) return;
       THEN engine' = engine
       ELSE engine' = [engine EXCEPT
               !.handX = PointerFraction(clientX, ContainerLeft, ContainerWidth)]
    /\ hist' = [hist EXCEPT !.lastClientX = clientX]
    /\ UNCHANGED <<now, scene, lastScore, leaderboard, props, host, isPaused, uiState, rafPending,
                   uiInterval, kalmanX, camera, frameCount, ev, vis>>

\* the callback handed to VisionTracker
handleHandUpdate(x, detected) ==
    engine' = [engine EXCEPT !.handX = x, !.isHandDetected = detected]

\* the tracker seen from the game: it passes a fresh estimate with
\* detected = true, or the held estimate (the last one it passed) with
\* detected = false
VisionUpdate ==
    /\ scene = "GAMEPLAY"
    /\ props.inputMode = "VISION"
    /\ \/ \E x \in VisionXs : handleHandUpdate(x, TRUE)
       \/ handleHandUpdate(engine.handX, FALSE)
    /\ UNCHANGED <<now, scene, lastScore, leaderboard, props, host, isPaused, uiState, rafPending,
                   uiInterval, kalmanX, camera, frameCount, ev, vis, hist>>

\* the setInterval callback: setUiState({...})
SnapshotKeepsCombo(e, t) ==
    [score |-> e.score, lives |-> e.lives, combo |-> uiState.combo,
     difficulty |-> e.difficulty, currentTime |-> t - e.startTime]

Snapshot(e, t) ==
    [score |-> e.score, lives |-> e.lives, combo |-> e.combo,
     difficulty |-> e.difficulty, currentTime |-> t - e.startTime]

UiSync ==
    /\ scene = "GAMEPLAY"
    /\ uiInterval
    /\ uiState' = Snapshot(engine, now)
    /\ UNCHANGED <<now, scene, lastScore, leaderboard, props, host, isPaused, engine, rafPending,
                   uiInterval, kalmanX, camera, frameCount, ev, vis, hist>>

Next ==
    \/ handleShowHowToPlay
    \/ handleStartGame
    \/ \E d \in DtSet : FramePaused(d)
    \/ \E d \in DtSet : FrameRunning(d)
    \/ TogglePause
    \/ \E c \in ClientXs : handleMove(c)
    \/ VisionUpdate
    \/ UiSync

Spec == Init /\ [][Next]_vars

(***************************************************************************)
(* Cursor mode on its own: pointer moves on, left of, right of and inside  *)
(* the container, with pauses in between                                   *)
(***************************************************************************)
PointerXs == {300, 368, 768, 1168, 1300}

PointerWorlds ==
    {[props |-> [inputMode |-> "CURSOR", theme |-> th, gameDifficulty |-> tier],
      host  |-> [dts |-> {16}, draws |-> RandomDrawsLong, frames |-> MaxFramesPointer,
                 pointer |-> PointerXs, pause |-> TRUE]] :
        th \in {"COSMIC"}, tier \in {"EASY", "HARD"}}

InitPointer ==
    /\ now \in MountTimes
    /\ scene = "START_MENU"
    /\ lastScore = 0
    /\ leaderboard = <<>>
    /\ \E w \in PointerWorlds : props = w.props /\ host = w.host
    /\ isPaused = FALSE
    /\ engine = NewEngine(props.gameDifficulty, now)
    /\ uiState = NewUiState
    /\ rafPending = {}
    /\ uiInterval = FALSE
    /\ kalmanX = NewKalman
    /\ camera = "starting"
    /\ frameCount = 0
    /\ ev = NoEvent
    /\ vis = NoVis
    /\ hist = NoHist

NextPointer ==
    \/ handleShowHowToPlay
    \/ handleStartGame
    \/ \E d \in DtSet : FramePaused(d)
    \/ \E d \in DtSet : FrameRunning(d)
    \/ TogglePause
    \/ \E c \in PointerXs : handleMove(c)

SpecPointer == InitPointer /\ [][NextPointer]_vars

(***************************************************************************)
(* VisionTracker                                                           *)
(***************************************************************************)
\* a video frame, as the runs of pixels the luminance test accepts:
\* n pixels in column col (col = i % procCanvas.width)
VideoFrames ==
    {<<>>,
     <<[col |-> 40, n |-> 8]>>,
     <<[col |-> 3, n |-> 9]>>,
     <<[col |-> 31, n |-> 9]>>,
     <<[col |-> 79, n |-> 9]>>}

RECURSIVE SumX(_)
SumX(frame) ==
    IF frame = <<>> THEN 0 ELSE frame[1].col * frame[1].n + SumX(Tail(frame))
RECURSIVE Count(_)
Count(frame) ==
    IF frame = <<>> THEN 0 ELSE frame[1].n + Count(Tail(frame))

RemapUnclamped(raw) == RDiv(RSub(raw, Rat(1, 10)), Rat(8, 10))

\* z = (rawMeasurement - 0.1) / 0.8; z = Math.max(0, Math.min(1, z))
Remap(raw) ==
    RMax(RInt(0), RMin(RInt(1), RDiv(RSub(raw, Rat(1, 10)), Rat(8, 10))))

KalmanGainInverted(p, r) == RDiv(RAdd(p, r), p)

\* gain = k.p / (k.p + k.r)
KalmanGain(p, r) == RDiv(p, RAdd(p, r))

KalmanUpdateStaleGain(k, z) ==
    LET p1   == RAdd(k.p, k.q)
        gain == KalmanGain(k.p, k.r)
    IN  [k EXCEPT !.x = RAdd(k.x, RMul(gain, RSub(z, k.x))),
                  !.p = RMul(RSub(RInt(1), gain), p1)]

\* k.p = k.p + k.q; gain; k.x = k.x + gain * (z - k.x); k.p = (1 - gain) * k.p
KalmanUpdate(k, z) ==
    LET p1   == RAdd(k.p, k.q)
        gain == KalmanGain(p1, k.r)
    IN  [k EXCEPT !.x = RAdd(k.x, RMul(gain, RSub(z, k.x))),
                  !.p = RMul(RSub(RInt(1), gain), p1)]

\* getUserMedia resolved and the video plays
setupCameraResolved ==
    /\ scene = "GAMEPLAY"
    /\ props.inputMode = "VISION"
    /\ camera = "starting"
    /\ camera' = "playing"
    /\ UNCHANGED <<now, scene, lastScore, leaderboard, props, host, isPaused, engine, uiState,
                   rafPending, uiInterval, kalmanX, frameCount, ev, vis, hist>>

\* getUserMedia rejected: setError("SENSOR OFFLINE")
setupCameraRejected ==
    /\ scene = "GAMEPLAY"
    /\ props.inputMode = "VISION"
    /\ camera = "starting"
    /\ camera' = "failed"
    /\ UNCHANGED <<now, scene, lastScore, leaderboard, props, host, isPaused, engine, uiState,
                   rafPending, uiInterval, kalmanX, frameCount, ev, vis, hist>>

processFramePredicting(frame) ==
    /\ scene = "GAMEPLAY"
    /\ props.inputMode = "VISION"
    /\ IF camera # "playing"
       THEN /\ vis' = [vis EXCEPT !.kind = "notReady"]
            /\ UNCHANGED <<kalmanX, engine>>
       ELSE IF Count(frame) > 8
       THEN LET raw == RDiv(Rat(SumX(frame), Count(frame)), RInt(80))
                z   == Remap(raw)
                k   == KalmanUpdate(kalmanX, z)
            IN  /\ vis.updates < MaxDetections
                /\ kalmanX' = k
                /\ handleHandUpdate(k.x, TRUE)
                /\ vis' = [kind |-> "detected", updates |-> vis.updates + 1,
                           run |-> IF vis.kind = "detected" /\ vis.z = z
                                   THEN vis.run + 1 ELSE 1,
                           z |-> z, gain |-> KalmanGain(RAdd(kalmanX.p, kalmanX.q), kalmanX.r),
                           predicted |-> RAdd(kalmanX.p, kalmanX.q),
                           before |-> [x |-> kalmanX.x, p |-> kalmanX.p]]
       ELSE /\ handleHandUpdate(kalmanX.x, FALSE)
            /\ kalmanX' = [kalmanX EXCEPT !.p = RAdd(kalmanX.p, kalmanX.q)]
            /\ vis' = [vis EXCEPT !.kind = "lost",
                                  !.before = [x |-> kalmanX.x, p |-> kalmanX.p]]
    /\ UNCHANGED <<now, scene, lastScore, leaderboard, props, host, isPaused, uiState,
                   rafPending, uiInterval, camera, frameCount, ev, hist>>

\* one processFrame callback of the tracker on the video frame `frame`
processFrame(frame) ==
    /\ scene = "GAMEPLAY"
    /\ props.inputMode = "VISION"
    /\ IF camera # "playing"
       THEN /\ vis' = [vis EXCEPT !.kind = "notReady"]
            /\ UNCHANGED <<kalmanX, engine>>
       ELSE IF Count(frame) > 8
       THEN LET raw == RDiv(Rat(SumX(frame), Count(frame)), RInt(80))
                z   == Remap(raw)
                k   == KalmanUpdate(kalmanX, z)
            IN  /\ vis.updates < MaxDetections
                /\ kalmanX' = k
                /\ handleHandUpdate(k.x, TRUE)
                /\ vis' = [kind |-> "detected", updates |-> vis.updates + 1,
                           run |-> IF vis.kind = "detected" /\ vis.z = z
                                   THEN vis.run + 1 ELSE 1,
                           z |-> z, gain |-> KalmanGain(RAdd(kalmanX.p, kalmanX.q), kalmanX.r),
                           predicted |-> RAdd(kalmanX.p, kalmanX.q),
                           before |-> [x |-> kalmanX.x, p |-> kalmanX.p]]
       ELSE /\ handleHandUpdate(kalmanX.x, FALSE)
            /\ kalmanX' = kalmanX
            /\ vis' = [vis EXCEPT !.kind = "lost",
                                  !.before = [x |-> kalmanX.x, p |-> kalmanX.p]]
    /\ UNCHANGED <<now, scene, lastScore, leaderboard, props, host, isPaused, uiState,
                   rafPending, uiInterval, camera, frameCount, ev, hist>>

InitVision == Init /\ props.inputMode = "VISION"

NextVision ==
    \/ handleShowHowToPlay
    \/ handleStartGame
    \/ setupCameraResolved
    \/ setupCameraRejected
    \/ \E frame \in VideoFrames : processFrame(frame)

SpecVision == InitVision /\ [][NextVision]_vars

(***************************************************************************)
(* The collision pass on its own, from drawn engine states                 *)
(***************************************************************************)
DrawnScores == {0, 165, 265, 333}
DrawnCombos == {0, 3, 4}
DrawnXs == {330, 331, 470}
DrawnYs == {YInt(490), [i |-> 490, f |-> 1], [i |-> 513, f |-> YDen - 1], YInt(514)}
DrawnObjects(id) ==
    [id : {id}, x : DrawnXs, y : DrawnYs, speed : {5}, type : {"GOOD", "BAD"}]
DrawnCollections ==
    {<<a>> : a \in DrawnObjects(1)}
        \cup {<<a, b>> : a \in DrawnObjects(1), b \in DrawnObjects(2)}

InitCollide ==
    /\ now \in MountTimes
    /\ scene = "GAMEPLAY"
    /\ lastScore = 0
    /\ leaderboard = <<>>
    /\ \E w \in Worlds : props = w.props /\ host = w.host
    /\ isPaused = FALSE
    /\ \E sc \in DrawnScores, c \in DrawnCombos, objs \in DrawnCollections,
          l \in {1, DIFFICULTY_SETTINGS[props.gameDifficulty].initialLives} :
          engine = [NewEngine(props.gameDifficulty, now) EXCEPT
                       !.score = sc, !.combo = c, !.lives = l, !.objects = objs]
    /\ uiState = NewUiState
    /\ rafPending = {[paused |-> FALSE]}
    /\ uiInterval = TRUE
    /\ kalmanX = NewKalman
    /\ camera = "starting"
    /\ frameCount = 0
    /\ ev = NoEvent
    /\ vis = NoVis
    /\ hist = [NoHist EXCEPT !.session = 1]

\* the "Collisions" block of loop: the paddle rectangle and the filter pass
CollisionPass ==
    /\ scene = "GAMEPLAY"
    /\ ev.kind = "none"
    /\ LET res == Collide(engine.objects, 1, StartOfPass(engine, hist),
                          engine.handX, props)
       IN  /\ engine' = [engine EXCEPT !.objects = res.kept, !.score = res.score,
                                       !.lives = res.lives, !.combo = res.combo]
           /\ ev' = [NoEvent EXCEPT !.kind = "collide", !.moved = engine.objects,
                                    !.hits = res.hits, !.audio = res.audio,
                                    !.scoreBefore = engine.score]
           /\ hist' = [hist EXCEPT !.goods = res.goods, !.bads = res.bads,
                                   !.goodBetween = res.goodBetween,
                                   !.fatalScore = res.fatalScore]
    /\ UNCHANGED <<now, scene, lastScore, leaderboard, props, host, isPaused, uiState, rafPending,
                   uiInterval, kalmanX, camera, frameCount, vis>>

NextCollide == CollisionPass

SpecCollide == InitCollide /\ [][NextCollide]_vars

(***************************************************************************)
(* Spawn positions across the playfield, with the pointer anywhere in the  *)
(* container                                                               *)
(***************************************************************************)
\* Math.random() * 700 + 50, for draws u of Math.random() that give a whole x
SpawnX(u) == (u.n * 700) \div u.d + 50
ReachUs == {Rat(0, 1), Rat(1, 700), Rat(1, 10), Rat(1, 2), Rat(699, 700)}
ReachDraws == [isBad : BOOLEAN, x : {SpawnX(u) : u \in ReachUs}, speed : {5}]
ReachPointerXs == {368, 418, 468, 768, 1068, 1117, 1168}

ReachWorlds ==
    {[props |-> [inputMode |-> "CURSOR", theme |-> "COSMIC", gameDifficulty |-> tier],
      host  |-> [dts |-> {16}, draws |-> ReachDraws, frames |-> MaxFramesReach,
                 pointer |-> ReachPointerXs, pause |-> FALSE]] :
        tier \in {"MEDIUM"}}

InitReach ==
    /\ now \in MountTimes
    /\ scene = "START_MENU"
    /\ lastScore = 0
    /\ leaderboard = <<>>
    /\ \E w \in ReachWorlds : props = w.props /\ host = w.host
    /\ isPaused = FALSE
    /\ engine = NewEngine(props.gameDifficulty, now)
    /\ uiState = NewUiState
    /\ rafPending = {}
    /\ uiInterval = FALSE
    /\ kalmanX = NewKalman
    /\ camera = "starting"
    /\ frameCount = 0
    /\ ev = NoEvent
    /\ vis = NoVis
    /\ hist = NoHist

NextReach ==
    \/ handleShowHowToPlay
    \/ handleStartGame
    \/ \E d \in DtSet : FrameRunning(d)
    \/ \E c \in ReachPointerXs : handleMove(c)

SpecReach == InitReach /\ [][NextReach]_vars

(***************************************************************************)
(* The leaderboard across game overs, from boards found in localStorage    *)
(***************************************************************************)
BoardOf(scores) == [k \in 1..Len(scores) |-> [id |-> k, score |-> scores[k]]]

\* boards the program wrote earlier: empty, nine entries, ten entries ending
\* in 0, ten entries ending in a run of equal scores
StoredBoards ==
    {<<>>,
     BoardOf(<<90, 80, 70, 60, 50, 40, 30, 20, 10>>),
     BoardOf(<<90, 80, 70, 60, 50, 40, 30, 20, 10, 0>>),
     BoardOf(<<50, 40, 30, 20, 10, 5, 5, 5, 5, 5>>)}

BoardWorlds ==
    {[props |-> [inputMode |-> "CURSOR", theme |-> "RETRO", gameDifficulty |-> "HARD"],
      host  |-> [dts |-> DtSet, draws |-> RandomDraws, frames |-> MaxFramesBoard,
                 pointer |-> {}, pause |-> FALSE]]}

InitBoard ==
    /\ now \in MountTimes
    /\ scene = "START_MENU"
    /\ lastScore = 0
    /\ leaderboard \in StoredBoards
    /\ \E w \in BoardWorlds : props = w.props /\ host = w.host
    /\ isPaused = FALSE
    /\ engine = NewEngine(props.gameDifficulty, now)
    /\ uiState = NewUiState
    /\ rafPending = {}
    /\ uiInterval = FALSE
    /\ kalmanX = NewKalman
    /\ camera = "starting"
    /\ frameCount = 0
    /\ ev = NoEvent
    /\ vis = NoVis
    /\ hist = NoHist

NextBoard ==
    \/ handleShowHowToPlay
    \/ handleStartGame
    \/ \E d \in DtSet : FrameRunning(d)

SpecBoard == InitBoard /\ [][NextBoard]_vars

(***************************************************************************)
(* Properties                                                              *)
(***************************************************************************)
FrameDelivered == frameCount' = frameCount + 1
Ids(objs) == {objs[k].id : k \in 1..Len(objs)}
Range(seq) == {seq[k] : k \in 1..Len(seq)}
ElapsedMs == now - engine.startTime
Settings == DIFFICULTY_SETTINGS[props.gameDifficulty]

\* C1: a frame callback delivered while the game is paused changes neither
\* spawnTimer, the object collection (so no object's position), score,
\* lives nor combo, and leaves a frame callback scheduled.
C1_PausedFrameInert ==
    [][(isPaused /\ FrameDelivered) =>
         /\ engine'.spawnTimer = engine.spawnTimer
         /\ engine'.objects = engine.objects
         /\ engine'.score = engine.score
         /\ engine'.lives = engine.lives
         /\ engine'.combo = engine.combo
         /\ rafPending' # {}]_vars

\* a slow frame was delivered to a paused game that has live objects
C1_Witness ==
    /\ isPaused
    /\ ev.kind = "paused"
    /\ ev.gap > 32
    /\ Len(engine.objects) > 0
    /\ rafPending # {}

\* C2 (as claimed): the dt of the first running tick after a pause does not
\* include the paused time, i.e. it is no more than the gap since the last
\* delivered frame callback.
C2_ResumeDtExcludesPause ==
    (ev.kind = "run" /\ ~ev.first /\ ev.pausedBefore > 0) => ev.dt <= ev.gap

\* C3 (as claimed): while the game is paused the elapsed session time, as
\* read by the difficulty formula and by the snapshot, stays what it was
\* when the pause began.
C3_ElapsedFrozenWhilePaused ==
    (scene = "GAMEPLAY" /\ isPaused) => ElapsedMs = hist.elapsedAtPause

\* C4 (as claimed): when L BAD hits with no GOOD hit between them have
\* ended the session, exactly one terminal event was produced and its
\* finalScore is the score as it stood at the last of those hits.
C4_FinalScoreAtLastBadHit ==
    (scene = "GAME_OVER" /\ ~hist.goodBetween) =>
        /\ hist.terminalEvents = 1
        /\ lastScore = hist.fatalScore

\* C4 (amended): lives fall by one per BAD hit from the tier's initial
\* lives; a session ended by them has produced exactly one terminal event,
\* and its finalScore is the score at the end of the tick of the last of
\* those hits, which is never less than the score at that hit.
C4_FinalScoreAtEndOfFatalTick ==
    /\ scene \in {"GAMEPLAY", "GAME_OVER"} =>
          engine.lives = Settings.initialLives - hist.bads * Settings.hazardPenalty
    /\ scene = "GAMEPLAY" => (hist.terminalEvents = 0 /\ hist.bads < Settings.initialLives)
    /\ scene = "GAME_OVER" =>
          /\ hist.terminalEvents = 1
          /\ hist.bads >= Settings.initialLives
          /\ lastScore = engine.score
          /\ hist.fatalScore >= 0
          /\ lastScore >= hist.fatalScore

\* five BAD hits, no GOOD hit between them, ended an easy-tier session
C4_Witness ==
    /\ scene = "GAME_OVER"
    /\ props.gameDifficulty = "EASY"
    /\ hist.bads = 5
    /\ ~hist.goodBetween
    /\ engine.lives = 0
    /\ lastScore = hist.fatalScore

\* C5: a running tick that ends with lives <= 0 hands floor(score) to the
\* terminal event in that tick and leaves no frame scheduled; once the
\* terminal event is out the engine record is not touched again by that
\* session; and the terminal event is only emitted with lives <= 0.
C5_TerminalTick ==
    [][/\ (FrameDelivered /\ ~isPaused /\ engine'.lives <= 0) =>
             /\ hist'.terminalEvents = hist.terminalEvents + 1
             /\ scene' = "GAME_OVER"
             /\ lastScore' = engine'.score
             /\ rafPending' = {}
       /\ (hist'.terminalEvents = hist.terminalEvents + 1) =>
             (FrameDelivered /\ engine'.lives <= 0)
       /\ (scene = "GAME_OVER" /\ scene' = "GAME_OVER") =>
             (engine' = engine /\ rafPending' = {} /\ lastScore' = lastScore)]_vars

\* a session ended with a positive score and nothing scheduled
C5_Witness ==
    /\ scene = "GAME_OVER"
    /\ ev.kind = "run"
    /\ ev.gameOver
    /\ engine.lives <= 0
    /\ lastScore > 0
    /\ rafPending = {}

\* C6: within a session an object leaves the collection only in a running
\* tick in which its moved y is at or beyond 650 or in which it was hit.
C6_RemovalOnlyByExitOrHit ==
    [][(hist'.session = hist.session) =>
         \A k \in 1..Len(engine.objects) :
            engine.objects[k].id \notin Ids(engine'.objects) =>
               /\ FrameDelivered
               /\ ev'.kind = "run"
               /\ \/ ev'.moved[k].y.i >= 650
                  \/ engine.objects[k].id \in Range(ev'.hits)]_vars

\* one tick removed an object that fell out and another that was hit,
\* and kept a third
C6_Witness ==
    /\ ev.kind = "run"
    /\ \E k \in 1..Len(ev.moved) :
          ev.moved[k].y.i >= 650 /\ ev.moved[k].id \notin Range(ev.hits)
    /\ \E k \in 1..Len(ev.moved) : ev.moved[k].id \in Range(ev.hits)
    /\ Len(engine.objects) > 0

\* C9: the difficulty multiplier is at least 1, and within a session no
\* delivered frame lowers it.
C9_DifficultyMonotone ==
    [][/\ engine.difficulty >= DiffDen
       /\ engine'.difficulty >= DiffDen
       /\ (hist'.session = hist.session) => engine'.difficulty >= engine.difficulty]_vars

\* a running tick raised the multiplier of a session that has scored
C9_Witness ==
    /\ ev.kind = "run"
    /\ ~ev.first
    /\ engine.score > 0
    /\ engine.difficulty > DiffDen + 240 * engine.score

\* what the collision pass did to the object o it started with
WasHit(o) == o.id \in Range(ev.hits) /\ o.id \notin Ids(engine.objects)
StrictlyInsideX(o) ==
    /\ RLess(PaddleX(engine.handX), RInt(o.x))
    /\ RLess(RInt(o.x), RAdd(PaddleX(engine.handX), RInt(140)))
StrictlyInsideY(o) == (o.y.i > 490 \/ (o.y.i = 490 /\ o.y.f > 0)) /\ o.y.i < 514
OnLeftEdge(o) == RInt(o.x) = PaddleX(engine.handX)
OnRightEdge(o) == RInt(o.x) = RAdd(PaddleX(engine.handX), RInt(140))

\* C7 (as claimed): the hit test is half-open with one convention on both
\* axes: an object on the left edge of the paddle is hit, one on the right
\* edge is not, and of the two vertical edges (y = py, y = py + ph) one
\* counts as a hit and the other does not.
C7_HalfOpenHitTest ==
    ev.kind = "collide" =>
        /\ \A k \in 1..Len(ev.moved) :
              LET o == ev.moved[k] IN
              /\ (OnLeftEdge(o) /\ StrictlyInsideY(o)) => WasHit(o)
              /\ OnRightEdge(o) => ~WasHit(o)
        /\ \E inc \in {490, 514} :
              \A k \in 1..Len(ev.moved) :
                  LET o == ev.moved[k] IN
                  /\ (StrictlyInsideX(o) /\ o.y = YInt(inc)) => WasHit(o)
                  /\ (o.y.f = 0 /\ o.y.i \in {490, 514} \ {inc}) => ~WasHit(o)

\* C7 (amended): the hit test is open on both axes: an object is hit exactly
\* when px < x < px + pw and py < y < py + ph, so an object on any of the
\* four bounds of the paddle rectangle is not hit.
C7_OpenHitTest ==
    ev.kind = "collide" =>
        \A k \in 1..Len(ev.moved) :
            LET o == ev.moved[k] IN
            /\ WasHit(o) <=> (StrictlyInsideX(o) /\ StrictlyInsideY(o))
            /\ ~WasHit(o) => o \in Range(engine.objects)

\* a pass kept an object lying on the left bound and hit another one
C7_Witness ==
    /\ ev.kind = "collide"
    /\ \E k \in 1..Len(ev.moved) :
          /\ OnLeftEdge(ev.moved[k])
          /\ StrictlyInsideY(ev.moved[k])
          /\ ev.moved[k] \in Range(engine.objects)
    /\ \E k \in 1..Len(ev.moved) : WasHit(ev.moved[k])

\* C8: the effective spawn interval is never below 200 ms and does not grow
\* when the score grows, on every tier.
C8_SpawnIntervalMonotone ==
    [][/\ SpawnRate(props.gameDifficulty, engine.score) >= 200
       /\ SpawnRate(props.gameDifficulty, engine'.score) >= 200
       /\ engine'.score >= engine.score =>
             SpawnRate(props.gameDifficulty, engine'.score)
                <= SpawnRate(props.gameDifficulty, engine.score)]_vars

\* a GOOD hit took the interval from above the floor down to the floor
C8_Witness ==
    /\ ev.kind = "collide"
    /\ engine.score > ev.scoreBefore
    /\ Settings.spawnRateBase - 3 * ev.scoreBefore > 200
    /\ Settings.spawnRateBase - 3 * engine.score < 200
    /\ SpawnRate(props.gameDifficulty, engine.score) = 200

\* C10: every detected update has a gain strictly between 0 and 1 and moves
\* the estimate x toward that frame's remapped measurement z' without
\* passing it; so for a z' repeated over successive detected frames
\* |x - z'| never increases and x never crosses z'.
C10_FilterApproachesMeasurement ==
    vis.kind = "detected" =>
        /\ RLess(RInt(0), vis.gain)
        /\ RLess(vis.gain, RInt(1))
        /\ RLeq(vis.before.x, vis.z) =>
              (RLeq(vis.before.x, kalmanX.x) /\ RLeq(kalmanX.x, vis.z))
        /\ RLeq(vis.z, vis.before.x) =>
              (RLeq(vis.z, kalmanX.x) /\ RLeq(kalmanX.x, vis.before.x))

\* the same measurement has been filtered several times in a row and the
\* estimate is still strictly between its previous value and the measurement
C10_Witness ==
    /\ vis.kind = "detected"
    /\ vis.run >= 3
    /\ vis.z = Rat(23, 64)
    /\ RLess(vis.z, kalmanX.x)
    /\ RLess(kalmanX.x, vis.before.x)
    /\ RLess(vis.before.x, Rat(1, 2))

\* C11: from x = 0.5, p = 1.0, q = 0.08, r = 0.04, one detected update with
\* remapped measurement 1.0 gives predicted variance 1.08, gain 1.08/1.12
\* (0.9643 to four places) and estimate 0.9821 to four places.
C11_FirstUpdateLiteral ==
    (vis.kind = "detected" /\ vis.updates = 1 /\ vis.z = Rat(1, 1)) =>
        /\ vis.before = [x |-> Rat(1, 2), p |-> Rat(1, 1)]
        /\ kalmanX.q = Rat(8, 100) /\ kalmanX.r = Rat(4, 100)
        /\ vis.predicted = Rat(108, 100)
        /\ vis.gain = Rat(108, 112)
        /\ RLess(Rat(96425, 100000), vis.gain) /\ RLess(vis.gain, Rat(96435, 100000))
        /\ kalmanX.x = RAdd(Rat(1, 2), RMul(Rat(108, 112), Rat(1, 2)))
        /\ RLess(Rat(98205, 100000), kalmanX.x) /\ RLess(kalmanX.x, Rat(98215, 100000))

\* the first detected frame of a session saturates the measurement at 1.0
C11_Witness ==
    /\ vis.kind = "detected"
    /\ vis.updates = 1
    /\ vis.z = Rat(1, 1)
    /\ kalmanX.x = Rat(55, 56)
    /\ engine.handX = Rat(55, 56)

\* C12 (as claimed): when the camera is denied or absent the engine is told
\* detected = false (while the control value is held and the game goes on).
C12_SensorLossReported ==
    (camera = "failed" /\ vis.kind = "notReady") =>
        /\ ~engine.isHandDetected
        /\ engine.handX = kalmanX.x

\* C13: after any sequence of vision frames the value fed to the filter is
\* in [0,1], the estimate x is in [0,1], and the variance p is finite and
\* not negative.
C13_EstimatorStateInRange ==
    /\ vis.kind = "detected" => (RLeq(RInt(0), vis.z) /\ RLeq(vis.z, RInt(1)))
    /\ RLeq(RInt(0), kalmanX.x) /\ RLeq(kalmanX.x, RInt(1))
    /\ RLeq(RInt(0), kalmanX.p)
    /\ kalmanX.x.d > 0 /\ kalmanX.p.d > 0

\* a centroid left of the remapped range was fed to the filter as 0 after an
\* earlier update, and pulled the estimate down without leaving [0,1]
C13_Witness ==
    /\ vis.kind = "detected"
    /\ vis.updates >= 2
    /\ vis.z = Rat(0, 1)
    /\ RLess(kalmanX.x, vis.before.x)
    /\ RLess(RInt(0), kalmanX.x)

\* an object of the moved collection lies strictly inside the paddle rectangle
InsidePaddle(o) == StrictlyInsideX(o) /\ StrictlyInsideY(o)

C15_OneAudioEventPerHit ==
    [][FrameDelivered =>
          IF ev'.kind = "run"
          THEN LET inside == SelectSeq(ev'.moved, InsidePaddle) IN
               /\ Len(ev'.audio) = Len(inside)
               /\ \A k \in 1..Len(inside) :
                     ev'.audio[k] = <<IF inside[k].type = "GOOD" THEN "playCollect"
                                      ELSE "playHazard", props.theme>>
          ELSE ev'.audio = <<>>]_vars

\* one tick hit a BAD and a GOOD object, spawned a third and kept it silent
C15_Witness ==
    /\ ev.kind = "run"
    /\ ev.spawned
    /\ Len(ev.moved) >= 2
    /\ ev.audio = <<<<"playHazard", props.theme>>, <<"playCollect", props.theme>>>>

\* a session is mounted by this step
Mounted == scene # "GAMEPLAY" /\ scene' = "GAMEPLAY"

\* C16: whenever the HUD state changes during a session it becomes a copy of
\* the engine's score, lives, combo and difficulty as they stand between two
\* ticks (the engine itself is not changing in that step), and a step that
\* changes the engine leaves the HUD state delivered earlier as it was.
C16_SnapshotAtTickBoundary ==
    [][/\ (uiState' # uiState /\ ~Mounted) =>
            /\ engine' = engine
            /\ uiState'.score = engine.score
            /\ uiState'.lives = engine.lives
            /\ uiState'.combo = engine.combo
            /\ uiState'.difficulty = engine.difficulty
            /\ uiState'.currentTime = now - engine.startTime
       /\ (engine' # engine /\ ~Mounted) => uiState' = uiState]_vars

\* a snapshot taken after a GOOD hit still shows that score and combo after
\* a later hit has raised the engine's
C16_Witness ==
    /\ scene = "GAMEPLAY"
    /\ uiState.score > 0
    /\ uiState.combo > 0
    /\ uiState.lives = engine.lives
    /\ engine.score > uiState.score
    /\ engine.combo > uiState.combo

\* this step is a mousemove event delivered to the cursor-mode listener
PointerMoved ==
    /\ scene = "GAMEPLAY" /\ scene' = "GAMEPLAY"
    /\ props.inputMode = "CURSOR"
    /\ hist'.session = hist.session
    /\ hist'.lastClientX # hist.lastClientX \/ engine'.handX # engine.handX

\* clamp((pointerX - containerLeft) / containerWidth, 0, 1)
ClampedFraction(c) ==
    IF c <= ContainerLeft THEN Rat(0, 1)
    ELSE IF c >= ContainerLeft + ContainerWidth THEN Rat(1, 1)
    ELSE Rat(c - ContainerLeft, ContainerWidth)

\* C17 (as claimed): in cursor mode every pointer move sets the control
\* value at once to clamp((pointerX - containerLeft)/containerWidth, 0, 1),
\* and the detected flag is true for the whole session.
C17_EveryMoveApplied ==
    [][/\ PointerMoved => engine'.handX = ClampedFraction(hist'.lastClientX)
       /\ (props.inputMode = "CURSOR" /\ scene' = "GAMEPLAY") =>
             engine'.isHandDetected]_vars

\* C17 (amended): in cursor mode every pointer move received while the game
\* is not paused sets the control value at once to the clamped fraction,
\* with no smoothing; a pointer move received while the game is paused is
\* ignored and leaves the control value as it was; the detected flag is true
\* for the whole session.
C17_MoveAppliedUnlessPaused ==
    [][/\ PointerMoved =>
             IF isPaused THEN engine' = engine
             ELSE engine'.handX = ClampedFraction(hist'.lastClientX)
       /\ (props.inputMode = "CURSOR" /\ scene' = "GAMEPLAY") =>
             engine'.isHandDetected]_vars

\* a move right of the container was applied as 1, and a later move made
\* while paused was ignored
C17_Witness ==
    /\ scene = "GAMEPLAY"
    /\ props.inputMode = "CURSOR"
    /\ isPaused
    /\ hist.lastClientX = 768
    /\ engine.handX = Rat(1, 1)
    /\ engine.isHandDetected

\* C18 (as claimed): the tier's score growth rate is one of the tuning values
\* the simulation uses: a session on a tier with another growth rate has a
\* different difficultyMultiplier at the same positive score and elapsed time.
C18_GrowthRateShapesDifficulty ==
    (scene = "GAMEPLAY" /\ ev.kind = "run" /\ engine.score > 0) =>
        \A tier \in DOMAIN DIFFICULTY_SETTINGS :
            DIFFICULTY_SETTINGS[tier].growth # Settings.growth =>
                engine.difficulty # DifficultyOnTier(tier, engine.score, ElapsedMs)

OutsidePaddle(o) == ~InsidePaddle(o)
CollisionPassTaken == ev.kind = "none" /\ ev'.kind = "collide"

\* C19: a pass with one object inside the paddle rectangle removes that
\* object and nothing else; if it is GOOD, score grows by 5 + floor(combo/4)
\* with the combo before the hit, combo grows by 1 and lives stay; if it is
\* BAD, lives drop by hazardPenalty, combo becomes 0 and score stays.
C19_HitEffects ==
    [][CollisionPassTaken =>
          LET inside == SelectSeq(engine.objects, InsidePaddle) IN
          Len(inside) = 1 =>
              /\ engine'.objects = SelectSeq(engine.objects, OutsidePaddle)
              /\ IF inside[1].type = "GOOD"
                 THEN /\ engine'.score = engine.score + 5 + (engine.combo \div 4)
                      /\ engine'.combo = engine.combo + 1
                      /\ engine'.lives = engine.lives
                 ELSE /\ engine'.lives = engine.lives - Settings.hazardPenalty
                      /\ engine'.combo = 0
                      /\ engine'.score = engine.score]_vars

\* a GOOD hit at combo 3 earned no bonus yet and took the combo to 4, while
\* the other object of the collection stayed
C19_Witness ==
    /\ ev.kind = "collide"
    /\ Len(ev.hits) = 1
    /\ Len(engine.objects) = 1
    /\ engine.combo = 4
    /\ engine.score = ev.scoreBefore + 5

RECURSIVE Reverse(_)
Reverse(seq) == IF seq = <<>> THEN <<>> ELSE Append(Reverse(Tail(seq)), Head(seq))

\* the outcome of the pass had the collection been in the opposite order
Reordered == Collide(Reverse(engine.objects), 1, StartOfPass(engine, hist),
                     engine.handX, props)
SameTypeHits ==
    \A a, b \in {o \in Range(engine.objects) : InsidePaddle(o)} : a.type = b.type

\* C20 (as claimed): for any objects hit in the same tick, score, lives and
\* combo come out the same for every order of those objects.
C20_OrderIndependent ==
    [][CollisionPassTaken =>
          /\ engine'.score = Reordered.score
          /\ engine'.lives = Reordered.lives
          /\ engine'.combo = Reordered.combo]_vars

\* C20 (amended): for any objects hit in the same tick, lives come out the
\* same for every order, and so do score and combo when the objects hit are
\* all GOOD or all BAD.
C20_OrderIndependentWithinType ==
    [][CollisionPassTaken =>
          /\ engine'.lives = Reordered.lives
          /\ SameTypeHits =>
                /\ engine'.score = Reordered.score
                /\ engine'.combo = Reordered.combo]_vars

\* two GOOD objects were hit in one pass at combo 3: the second earned the
\* bonus
C20_Witness ==
    /\ ev.kind = "collide"
    /\ Len(ev.hits) = 2
    /\ ev.audio[1] = ev.audio[2]
    /\ ev.audio[1][1] = "playCollect"
    /\ engine.combo = 5
    /\ engine.score = ev.scoreBefore + 11

\* y <= n and y >= n for a whole number n
YAtMost(a, n) == a.i < n \/ (a.i = n /\ a.f = 0)
YAtLeast(a, n) == a.i >= n
RunningTick == FrameDelivered /\ ev'.kind = "run"

\* the multiplier stored by the previous running tick of the session (1
\* before the first one): computed from the score and the clock of that tick
StoredMultiplier ==
    IF engine.lastTime = 0 THEN DiffDen
    ELSE DiffDen + 240 * engine.score + (engine.lastTime - engine.startTime)

\* the object objs[k] advanced with multiplier dn over a frame gap dt
Advanced(obj, dt, dn) ==
    YAdd(obj.y, YStep(obj.speed, Min(dt, 32), THEME_DATA[props.theme].gravityMult, dn))

\* C21 (as claimed): the difficulty controller runs first, so the multiplier
\* applied to motion in a tick is the one computed from the score and the
\* elapsed time at the start of that tick.
C21_MotionUsesFreshMultiplier ==
    [][RunningTick =>
          \A k \in 1..Len(engine.objects) :
              ev'.moved[k].y =
                  Advanced(engine.objects[k], ev'.dt,
                           DiffDen + 240 * engine.score + (now' - engine.startTime))]_vars

\* C21 (amended): a running tick runs motion, then the spawner, then the
\* collision pass, then the difficulty controller, then the lives check: the
\* multiplier applied to motion is the one the previous running tick stored
\* (1 in the first tick), the object spawned in the tick is not moved in it,
\* and the multiplier stored by the tick uses the score after its collisions.
C21_MotionUsesStoredMultiplier ==
    [][RunningTick =>
          /\ Len(ev'.moved) = Len(engine.objects)
          /\ \A k \in 1..Len(engine.objects) :
                ev'.moved[k].y = Advanced(engine.objects[k], ev'.dt, StoredMultiplier)
          /\ ev'.spawned =>
                \E k \in 1..Len(engine'.objects) :
                    /\ engine'.objects[k].id \notin Ids(engine.objects)
                    /\ engine'.objects[k].y = YInt(-50)
          /\ engine'.difficulty =
                DiffDen + 240 * engine'.score + (now' - engine.startTime)]_vars

\* after a long frame gap a tick moved an object only a few pixels down from
\* its spawn height: the multiplier was still the one of the tick before
C21_Witness ==
    /\ scene = "GAMEPLAY"
    /\ ev.kind = "run"
    /\ ~ev.first
    /\ ev.dt >= 5520000
    /\ \E k \in 1..Len(ev.moved) : ev.moved[k].y.i < 0
    /\ engine.difficulty > 40 * DiffDen

\* C22: after every running tick the stored multiplier equals
\* 1 + score/500 + elapsedSeconds/120 for the score and the elapsed time the
\* engine has then, whatever the multiplier was before; nothing but a running
\* tick (or a new session) changes it.
C22_MultiplierIsPure ==
    [][/\ RunningTick =>
            engine'.difficulty =
                DiffDen + (DiffDen \div 500) * engine'.score
                + (DiffDen \div 120000) * (now' - engine'.startTime)
       /\ engine'.difficulty # engine.difficulty => RunningTick \/ Mounted]_vars

\* a later tick of a session, with points scored, left the closed-form value
C22_Witness ==
    /\ scene = "GAMEPLAY"
    /\ ev.kind = "run"
    /\ ~ev.first
    /\ engine.score > 0
    /\ engine.difficulty = DiffDen + 240 * engine.score + ElapsedMs

ObjectWithId(objs, id) == CHOOSE o \in Range(objs) : o.id = id
YBefore(a, b) == a.i < b.i \/ (a.i = b.i /\ a.f < b.f)

\* C23: in a running tick every live object's y grows by
\* speed * (min(dt, 32) / 16.67) * gravityMult * multiplier and its x stays;
\* an object's y never decreases while it lives; a tick with dt > 32 moves
\* the objects exactly as far as a tick of 32 ms.
C23_ClampedMotion ==
    [][/\ RunningTick =>
            \A k \in 1..Len(engine.objects) :
                LET obj  == engine.objects[k]
                    ms   == IF ev'.dt > 32 THEN 32 ELSE ev'.dt
                    step == YStep(obj.speed, ms,
                                  THEME_DATA[props.theme].gravityMult,
                                  engine.difficulty)
                IN  /\ ev'.moved[k].x = obj.x
                    /\ ev'.moved[k].id = obj.id
                    /\ ev'.moved[k].y = YAdd(obj.y, step)
                    /\ YBefore(obj.y, ev'.moved[k].y)
       /\ ~Mounted =>
            \A id \in Ids(engine.objects) \cap Ids(engine'.objects) :
                /\ ~YBefore(ObjectWithId(engine'.objects, id).y,
                            ObjectWithId(engine.objects, id).y)
                /\ ObjectWithId(engine'.objects, id).x =
                       ObjectWithId(engine.objects, id).x]_vars

\* a tick after a frame gap of 1504 ms moved an object less than 20 px down
\* from its spawn height (unclamped, the gap would carry it hundreds of px)
C23_Witness ==
    /\ scene = "GAMEPLAY"
    /\ ev.kind = "run"
    /\ ~ev.first
    /\ ev.dt = 1504
    /\ \E k \in 1..Len(ev.moved) :
          /\ ev.moved[k].y.i >= -50
          /\ ev.moved[k].y.i < -30
          /\ ev.moved[k].x = 400

\* C24: no object whose x is inside the paddle passes in one tick from
\* y <= 490 to y >= 514 without being hit.
C24_NoTunneling ==
    [][RunningTick =>
          \A k \in 1..Len(engine.objects) :
              (/\ StrictlyInsideX(ev'.moved[k])
               /\ YAtMost(engine.objects[k].y, PaddleY)
               /\ YAtLeast(ev'.moved[k].y, PaddleY + PaddleH))
                  => ev'.moved[k].id \in Range(ev'.hits)]_vars

NewIds == Ids(engine'.objects) \ Ids(engine.objects)

\* C25: in a running tick, when spawnTimer plus dt exceeds the spawn
\* interval, spawnTimer becomes 0 and exactly one object is appended;
\* otherwise no object is appended and spawnTimer keeps the accumulated
\* value. No tick appends more than one object, however large dt is.
C25_AtMostOneSpawn ==
    [][RunningTick =>
          LET timer    == engine.spawnTimer + ev'.dt
              base     == DIFFICULTY_SETTINGS[props.gameDifficulty].spawnRateBase
              interval == IF base - 3 * engine.score < 200 THEN 200
                          ELSE base - 3 * engine.score
          IN  IF timer > interval
              THEN /\ engine'.spawnTimer = 0
                   /\ Cardinality(NewIds) = 1
                   /\ Len(engine'.objects) > 0
                   /\ engine'.objects[Len(engine'.objects)].id \in NewIds
              ELSE /\ engine'.spawnTimer = timer
                   /\ NewIds = {}]_vars

\* a tick after the longest frame gap appended one object and reset the timer
C25_Witness ==
    /\ ev.kind = "run"
    /\ ev.dt >= 5520000
    /\ ev.spawned
    /\ engine.spawnTimer = 0
    /\ Len(engine.objects) > 0
    /\ engine.objects[Len(engine.objects)].y = YInt(-50)
    /\ \A k \in 1..(Len(engine.objects) - 1) : engine.objects[k].y # YInt(-50)

\* C26 (as claimed): the multiplier modulates the spawn rate: of two
\* consecutive running ticks that start with the same score, the later one
\* (more elapsed time, so a larger multiplier) works with a shorter spawn
\* interval, unless the interval is at its floor of 200 ms.
C26_MultiplierShortensInterval ==
    [][(RunningTick /\ ev.kind = "run" /\ ev'.scoreBefore = ev.scoreBefore
          /\ engine.difficulty > DiffDen) =>
          ev'.spawnRate < ev.spawnRate \/ ev'.spawnRate = 200]_vars

\* C26 (amended): the spawn interval of a tick is max(200, base - 3 * score)
\* for the score at the start of the tick; the multiplier and the elapsed
\* time play no part in it, so two ticks that start with the same score work
\* with the same interval.
C26_IntervalFromScoreOnly ==
    [][RunningTick =>
          /\ ev'.spawnRate =
                (IF Settings.spawnRateBase - 3 * engine.score < 200 THEN 200
                 ELSE Settings.spawnRateBase - 3 * engine.score)
          /\ (ev.kind = "run" /\ ev'.scoreBefore = ev.scoreBefore) =>
                ev'.spawnRate = ev.spawnRate]_vars

\* with no pause in the session, a tick that began with a multiplier above
\* 40 and score 0 still worked with the tier's base interval
C26_Witness ==
    /\ ~host.pause
    /\ ev.kind = "run"
    /\ ev.dt = 1504
    /\ frameCount >= 2
    /\ engine.difficulty - ev.dt > 40 * DiffDen
    /\ ev.scoreBefore = 0
    /\ ev.spawnRate = Settings.spawnRateBase

\* C27: a frame with count <= 8 leaves the estimate x and the covariance p
\* as they were and reports (previous x, detected = false); no predict step
\* runs, so after a dropout of any length x and p are what they were before.
C27_DropoutHoldsEstimate ==
    [][/\ vis'.kind = "lost" =>
            /\ kalmanX' = kalmanX
            /\ kalmanX'.x = vis'.before.x /\ kalmanX'.p = vis'.before.p
            /\ engine'.handX = kalmanX.x
            /\ ~engine'.isHandDetected
       /\ kalmanX' # kalmanX => vis'.kind = "detected" \/ Mounted]_vars

\* after at least one detection moved the estimate, a dropout frame reported
\* that estimate with detected = false
C27_Witness ==
    /\ vis.kind = "lost"
    /\ vis.updates >= 1
    /\ kalmanX.x # Rat(1, 2)
    /\ kalmanX.p # Rat(1, 1)
    /\ engine.handX = kalmanX.x
    /\ ~engine.isHandDetected

\* C28: in every reachable state score >= 0, combo >= 0, spawnTimer >= 0 and
\* lives is an integer; within a session score never decreases and lives
\* never increases.
C28_CountersInRange ==
    /\ [](/\ engine.score \in Nat
          /\ engine.combo \in Nat
          /\ engine.spawnTimer \in Nat
          /\ engine.lives \in Int)
    /\ [][~Mounted => /\ engine'.score >= engine.score
                      /\ engine'.lives =< engine.lives]_vars

\* a session going on with points scored, a combo running and time
\* accumulated towards the next spawn
C28_Witness ==
    /\ scene = "GAMEPLAY"
    /\ ev.kind = "run"
    /\ engine.score > 0
    /\ engine.combo > 0
    /\ engine.spawnTimer > 0

Restarted == scene = "GAME_OVER" /\ scene' = "GAMEPLAY"

\* C29: restarting after game over begins a session with fresh engine state
\* (score 0, combo 0, the tier's initial lives, no objects, spawnTimer 0, a
\* new start time); nothing of the finished session carries over.
C29_RestartIsFresh ==
    [][Restarted =>
          /\ engine'.score = 0
          /\ engine'.combo = 0
          /\ engine'.lives = Settings.initialLives
          /\ engine'.objects = <<>>
          /\ engine'.spawnTimer = 0
          /\ engine'.lastTime = 0
          /\ engine'.difficulty = DiffDen
          /\ engine'.handX = Rat(1, 2)
          /\ engine'.startTime = now'
          /\ engine'.startTime > engine.startTime
          /\ ~isPaused'
          /\ kalmanX'.x = Rat(1, 2) /\ kalmanX'.p = Rat(1, 1)
          /\ uiState'.score = 0 /\ uiState'.combo = 0]_vars

\* the second session of a run, after a game that ended with points: the
\* engine is fresh
C29_Witness ==
    /\ hist.session = 2
    /\ scene = "GAMEPLAY"
    /\ lastScore > 0
    /\ engine.score = 0
    /\ engine.lives = Settings.initialLives
    /\ engine.objects = <<>>
    /\ engine.startTime = now

\* C30 (as claimed): lives stay within 0..initialLives in every reachable
\* state, even when several BAD objects are hit in the same tick.
C30_LivesNeverNegative ==
    engine.lives >= 0 /\ engine.lives =< Settings.initialLives

\* C30 (amended): lives never exceed the tier's initial lives and are at
\* least 1 while the session goes on; the terminal tick leaves lives at
\* initialLives minus the penalty of every BAD hit of the session, which is
\* 0 or less and is negative when the tick hit BAD objects beyond the fatal one.
C30_LivesPositiveUntilTerminalTick ==
    /\ engine.lives =< Settings.initialLives
    /\ scene = "GAMEPLAY" => engine.lives >= 1
    /\ scene = "GAME_OVER" =>
          /\ engine.lives =< 0
          /\ engine.lives > 0 - Settings.hazardPenalty * Len(ev.hits)
          /\ Len(ev.hits) >= 1

\* a terminal tick hit more BAD objects than lives were left
C30_Witness ==
    /\ scene = "GAME_OVER"
    /\ ev.gameOver
    /\ engine.lives < 0
    /\ Len(ev.hits) >= 2

\* C31: no object is spawned before one full spawn interval has elapsed
\* since the session started: the dt of the first tick of a session is
\* measured from the start of the session, not from time origin 0.
C31_FirstDtFromSessionStart ==
    [][RunningTick =>
          /\ ev'.first => ev'.dt = now' - engine.startTime
          /\ ev'.spawned => now' - engine.startTime >= ev'.spawnRate]_vars

\* C32: across any sequence of pause and resume clicks at most one frame
\* callback of the game loop is pending: while a session is on there is
\* exactly one, it is the one scheduled under the current value of isPaused,
\* and none is left when the session is over; so a host frame runs one tick.
C32_OneFramePending ==
    /\ Cardinality(rafPending) =< 1
    /\ scene = "GAMEPLAY" => rafPending = {[paused |-> isPaused]}
    /\ scene # "GAMEPLAY" => rafPending = {}

\* after a pause with a paused frame and a resume, a tick ran and one frame
\* callback is pending
C32_Witness ==
    /\ scene = "GAMEPLAY"
    /\ ~isPaused
    /\ ev.kind = "run"
    /\ ev.pausedBefore > 0
    /\ Cardinality(rafPending) = 1

\* C33: the lives value handed to the HUD during a session is a value the
\* engine's lives held at a tick boundary of that session (so it lies
\* between the engine's current lives and the tier's initial lives); the HUD
\* is never given lives = 0 while the engine has lives > 0.
C33_DisplayedLivesWereHeld ==
    scene = "GAMEPLAY" =>
        /\ uiState.lives >= engine.lives
        /\ uiState.lives =< Settings.initialLives
        /\ ~(uiState.lives = 0 /\ engine.lives > 0)

\* the control values the pointer can produce
ControlValues ==
    {PointerFraction(c, ContainerLeft, ContainerWidth) : c \in host.pointer}

\* C34: every spawned object is horizontally reachable: its x lies in
\* [50, 750) and some control value handX in [0, 1] puts the paddle
\* rectangle strictly around x.
C34_SpawnedObjectReachable ==
    \A k \in 1..Len(engine.objects) :
        LET x == engine.objects[k].x IN
        /\ 50 =< x /\ x < 750
        /\ \E h \in ControlValues :
              /\ RLeq(RInt(0), h) /\ RLeq(h, RInt(1))
              /\ PaddleLeftOf(h, x)
              /\ PaddleRightOf(h, x)

\* an object spawned at the rightmost whole x, and the player's paddle is
\* around it
C34_Witness ==
    /\ scene = "GAMEPLAY"
    /\ ev.kind = "run"
    /\ \E k \in 1..Len(engine.objects) :
          /\ engine.objects[k].x = 749
          /\ PaddleLeftOf(engine.handX, 749)
          /\ PaddleRightOf(engine.handX, 749)
    /\ RLeq(engine.handX, RInt(1))

GameEnded == scene = "GAMEPLAY" /\ scene' = "GAME_OVER"
Scores(board) == {board[k].score : k \in 1..Len(board)}

\* C35: each game over adds one entry with the floor of the final score to
\* the leaderboard, after which the leaderboard is in descending order of
\* score and holds the 10 highest entries at most; nothing else changes the
\* leaderboard; highScore is the maximum score on it, or 0 when it is empty.
C35_LeaderboardTopTen ==
    /\ [][/\ GameEnded =>
               LET new == [id |-> NewEntryId(leaderboard), score |-> engine'.score]
                   all == Range(leaderboard) \cup {new}
               IN  /\ Len(leaderboard') =
                         (IF Len(leaderboard) < 10 THEN Len(leaderboard) + 1 ELSE 10)
                   /\ Range(leaderboard') \subseteq all
                   /\ Cardinality(Range(leaderboard')) = Len(leaderboard')
                   /\ \A i, j \in 1..Len(leaderboard') :
                         i < j => leaderboard'[i].score >= leaderboard'[j].score
                   /\ \A out \in all \ Range(leaderboard') :
                         \A k \in 1..Len(leaderboard') :
                             leaderboard'[k].score >= out.score
                   /\ new \notin Range(leaderboard') =>
                         /\ Len(leaderboard) = 10
                         /\ \A k \in 1..10 : leaderboard[k].score >= new.score
          /\ leaderboard' # leaderboard => GameEnded]_vars
    /\ [](/\ Len(leaderboard) =< 10
          /\ \A sc \in Scores(leaderboard) : highScore >= sc
          /\ highScore \in Scores(leaderboard) \cup {0}
          /\ leaderboard = <<>> => highScore = 0
          /\ leaderboard # <<>> => highScore \in Scores(leaderboard))

\* a game that ended with 5 points entered a full board at the bottom,
\* pushing the lowest entry out
C35_Witness ==
    /\ scene = "GAME_OVER"
    /\ lastScore = 5
    /\ Len(leaderboard) = 10
    /\ leaderboard[10] = [id |-> 11, score |-> 5]
    /\ leaderboard[9].score = 10
    /\ highScore = 90

====
